---- MODULE Spec2Model ----
(***************************************************************************)
(* A model of text_editor.c: the line buffer (a singly linked list of      *)
(* nodes, each holding char text[128]), its three operations               *)
(* buffer_select_node, buffer_remove_character, buffer_insert_character,   *)
(* and the key loop of main() that drives them from the cursor (x, y).     *)
(*                                                                         *)
(* Characters are their ASCII codes, keys their ncurses key codes.  A      *)
(* node's text stands for the whole 128-slot array, so that what lies      *)
(* behind the terminator is part of the state.  An access outside the      *)
(* array is undefined behaviour: the model raises the flag ub, lets a read *)
(* there yield any byte of JunkBytes, drops a write there from the array,  *)
(* and offers as outcomes both the continued execution and no effect at    *)
(* all.  Once ub is raised nothing further is defined and no action is     *)
(* taken.                                                                  *)
(*                                                                         *)
(* Left out: calloc is taken to succeed, and the printable keys of the     *)
(* model do not include '%', which mvprintw would read as a conversion of  *)
(* its format.                                                             *)
(***************************************************************************)
EXTENDS Integers, Sequences, FiniteSets, TLC

VARIABLES b, x, y, ch, pc, ub, call, first, keys

vars == <<b, x, y, ch, pc, ub, call, first, keys>>

(***************************************************************************)
(* Program constants.                                                      *)
(***************************************************************************)
MAX_LINE_LEN == 128
KEY_DELETE == 127
KEY_DOWN == 258
KEY_UP == 259
KEY_LEFT == 260
KEY_RIGHT == 261
KEY_F10 == 274
KEY_HOME == 262
NUL == 0
SPACE == 32

(***************************************************************************)
(* Bounds of the model.                                                    *)
(***************************************************************************)
\* KEY_RIGHT is taken while x <= MaxCol
MaxCol == 1
\* KEY_DOWN is taken while y < MaxRow
MaxRow == 0
\* KEY_LEFT and KEY_UP are taken while the coordinate is > -NegDepth
NegDepth == 1
\* a printable key is taken while x <= MaxCol and the store holds fewer than
\* MaxTyped characters
MaxTyped == 2
\* the stores the calls of SpecApi start from hold at most MaxLines lines,
\* each of at most MaxLen characters or within NearCap characters of full
MaxLines == 1
MaxLen == 1
NearCap == 1
\* the calls of SpecApi take rows up to ApiMaxRow and columns up to
\* ApiMaxCol, or within NearCap of the end of the array
ApiMaxRow == 3
ApiMaxCol == 5

\* the printable keys of the model: 'a' and 'b'
Chars == {97, 98}
\* a key that is neither a move, KEY_DELETE, KEY_F(10) nor printable: '\n'
OtherKey == 10
\* what isprint may yield for an argument it is not defined for
JunkTruth == BOOLEAN
\* the bytes a read outside a text array may yield: NUL or '?'
JunkBytes == {NUL, 63}

Slots == 0 .. (MAX_LINE_LEN - 1)

\* calloc(1, sizeof(node_t)): every slot of text is NUL.  A text array is
\* written as the tuple of its slots up to the last one that is not NUL; the
\* slots behind it, up to slot MAX_LINE_LEN - 1, all hold NUL.
calloc_text == <<>>

\* Buffer b = { 0 }: head == NULL (no node), current == NULL
EmptyBuffer == [head |-> <<>>, current |-> 0]

\* isprint in the "C" locale
isprint(c) == c >= 32 /\ c <= 126

\* the arguments isprint is defined for: EOF and the values of unsigned char
isprint_defined(c) == c >= -1 /\ c <= 255

\* the conversion of an int to char that text[x] = ch makes
to_char(c) == c % 256

(***************************************************************************)
(* Reads and writes of a text array.  A line being worked on is a record   *)
(* [text, ub]: the array, and whether an access has left it.               *)
(***************************************************************************)
InBounds(i) == i \in Slots

\* text[i] for a slot i of a text array
At(t, i) == IF i < Len(t) THEN t[i + 1] ELSE NUL

\* a tuple of slots without the NULs at its end
RECURSIVE Trim(_)
Trim(t) ==
    IF Len(t) = 0 \/ t[Len(t)] # NUL
    THEN t
    ELSE Trim([k \in 1 .. (Len(t) - 1) |-> t[k]])

Min(m, n) == IF m <= n THEN m ELSE n
Max(m, n) == IF m >= n THEN m ELSE n

\* the text array whose slot j holds f[j] for j < hi, and NUL from hi on
TextOf(f, hi) == Trim([k \in 1 .. Min(hi, MAX_LINE_LEN) |-> f[k - 1]])

\* the slots below hi
Below(hi) == 0 .. (Min(hi, MAX_LINE_LEN) - 1)

Load(t, i, junk) == IF InBounds(i) THEN At(t, i) ELSE junk

Store(l, i, v) ==
    IF InBounds(i)
    THEN LET hi == Max(Len(l.text), i + 1)
         IN  [l EXCEPT !.text = TextOf([j \in Below(hi) |->
                                          IF j = i THEN v ELSE At(l.text, j)], hi)]
    ELSE [l EXCEPT !.ub = TRUE]

HasNul(t) == \E i \in Slots : At(t, i) = NUL

\* strlen(text): the index of the first NUL.  With no NUL inside the array it
\* reads on behind it (undefined): there it meets junk, then a NUL.
strlen(t, junk) ==
    IF HasNul(t)
    THEN CHOOSE n \in Slots :
            At(t, n) = NUL /\ \A j \in 0 .. (n - 1) : At(t, j) # NUL
    ELSE IF junk = NUL THEN MAX_LINE_LEN ELSE MAX_LINE_LEN + 1

(***************************************************************************)
(* buffer_select_node                                                      *)
(***************************************************************************)
\* select_walk with the test of next == NULL lost: every step links a new node
RECURSIVE select_walk_append(_, _, _, _)
select_walk_append(head, current, i, yy) ==
    IF i < yy
    THEN select_walk_append(Append(head, calloc_text), current + 1, i + 1, yy)
    ELSE [head |-> head, current |-> current]

RECURSIVE select_walk(_, _, _, _)
select_walk(head, current, i, yy) ==
    IF i < yy
    THEN LET linked == IF current = Len(head)
                       THEN Append(head, calloc_text)
                       ELSE head
         IN  select_walk(linked, current + 1, i + 1, yy)
    ELSE [head |-> head, current |-> current]

\* buffer_select_node walking one step too far: i <= y for i < y
buffer_select_node_far(bb, yy) ==
    LET head == IF bb.head = <<>> THEN <<calloc_text>> ELSE bb.head
    IN  select_walk(head, 1, 0, yy + 1)

buffer_select_node(bb, yy) ==
    LET head == IF bb.head = <<>> THEN <<calloc_text>> ELSE bb.head
    IN  select_walk(head, 1, 0, yy)

(***************************************************************************)
(* buffer_remove_character                                                 *)
(***************************************************************************)
\* the comparison of size_t_less made between signed integers
signed_less(i, n) == i < n

\* i < strlen(...) compares an int with a size_t: i is converted to size_t,
\* so a negative i becomes SIZE_MAX + 1 + i, larger than any length.
size_t_less(i, n) == IF i < 0 THEN FALSE ELSE i < n

\* for ( i = x - 1; i < strlen(text); i++ ) text[i] = text[i + 1];
\* The copy runs upwards, so every slot receives what its right neighbour held
\* before the loop; it copies the terminator in its last round, at
\* i = strlen - 1, so that reading strlen anew in every round ends the loop
\* where reading it once would.
remove_loop(l, i, junk) ==
    LET n  == strlen(l.text, junk)
        l0 == [l EXCEPT !.ub = @ \/ ~HasNul(l.text)]
    IN  IF size_t_less(i, n)
        THEN [text |-> TextOf([j \in Below(Len(l.text)) |->
                                 IF i <= j /\ j <= n - 1
                                 THEN Load(l.text, j + 1, junk)
                                 ELSE At(l.text, j)], Len(l.text)),
              ub   |-> l0.ub \/ \E j \in i .. (n - 1) :
                                  ~InBounds(j) \/ ~InBounds(j + 1)]
        ELSE l0

\* remove_text closing the gap at x instead of x - 1
remove_text_at(t, xx, junk) ==
    LET l1 == remove_loop([text |-> t, ub |-> FALSE], xx, junk)
        l2 == [l1 EXCEPT !.ub = @ \/ ~HasNul(l1.text)]
    IN  Store(l2, strlen(l2.text, junk), NUL)

\* remove_text that ends the line at x - 1 and leaves the rest in its slots
remove_text_cut(t, xx, junk) ==
    Store([text |-> t, ub |-> FALSE], xx - 1, NUL)

\* remove_text taking a column behind the end of the line for the end
remove_text_clamped(t, xx, junk) ==
    LET l1 == remove_loop([text |-> t, ub |-> FALSE],
                          Min(xx, strlen(t, junk)) - 1, junk)
        l2 == [l1 EXCEPT !.ub = @ \/ ~HasNul(l1.text)]
    IN  Store(l2, strlen(l2.text, junk), NUL)

remove_text(t, xx, junk) ==
    LET l1 == remove_loop([text |-> t, ub |-> FALSE], xx - 1, junk)
        l2 == [l1 EXCEPT !.ub = @ \/ ~HasNul(l1.text)]
    IN  Store(l2, strlen(l2.text, junk), NUL)

buffer_remove_character(bb, xx, yy, junk) ==
    LET s == buffer_select_node(bb, yy)
        r == remove_text(s.head[s.current], xx, junk)
    IN  [b |-> [s EXCEPT !.head[s.current] = r.text], ub |-> r.ub]

(***************************************************************************)
(* buffer_insert_character                                                 *)
(***************************************************************************)
\* gap_fill that fills nothing
gap_fill_none(l, xx) == l

\* for( i = 0; i < x; i++ ) if( text[i] == 0 ) text[i] = ' ';
gap_fill(l, xx) ==
    [text |-> LET hi == Max(Len(l.text), xx)
               IN  TextOf([j \in Below(hi) |->
                             IF j < xx /\ At(l.text, j) = NUL
                             THEN SPACE
                             ELSE At(l.text, j)], hi),
     ub   |-> l.ub \/ xx > MAX_LINE_LEN]

\* for( i = strlen(text); i >= x; i-- ) text[i+1] = text[i];
\* The copy runs downwards, so every slot receives what its left neighbour
\* held before the loop.
shift_right(l, n, xx, junk) ==
    [text |-> LET hi == Max(Len(l.text), n + 2)
               IN  TextOf([j \in Below(hi) |->
                             IF xx + 1 <= j /\ j <= n + 1
                             THEN Load(l.text, j - 1, junk)
                             ELSE At(l.text, j)], hi),
     ub   |-> l.ub \/ \E i \in xx .. n : ~InBounds(i) \/ ~InBounds(i + 1)]

\* insert_text overwriting the character at x instead of shifting
insert_text_over(t, c, xx, junk) ==
    LET l1 == gap_fill([text |-> t, ub |-> FALSE], xx)
        l2 == [l1 EXCEPT !.ub = @ \/ ~InBounds(xx)]
    IN  Store(l2, xx, c)

insert_text(t, c, xx, junk) ==
    LET l1 == gap_fill([text |-> t, ub |-> FALSE], xx)
        l2 == [l1 EXCEPT !.ub = @ \/ ~InBounds(xx)]
        l3 == IF Load(l2.text, xx, junk) # NUL
              THEN shift_right([l2 EXCEPT !.ub = @ \/ ~HasNul(l2.text)],
                               strlen(l2.text, junk), xx, junk)
              ELSE l2
    IN  Store(l3, xx, c)

\* buffer_insert_character that takes column 0 for x
buffer_insert_character_front(bb, c, xx, yy, junk) ==
    LET s == buffer_select_node(bb, yy)
        r == insert_text(s.head[s.current], c, 0, junk)
    IN  [b |-> [s EXCEPT !.head[s.current] = r.text], ub |-> r.ub]

buffer_insert_character(bb, c, xx, yy, junk) ==
    LET s == buffer_select_node(bb, yy)
        r == insert_text(s.head[s.current], c, xx, junk)
    IN  [b |-> [s EXCEPT !.head[s.current] = r.text], ub |-> r.ub]

(***************************************************************************)
(* The text of a line as a sequence of characters, and what is drawn.      *)
(***************************************************************************)
Terminated(bb) == \A r \in 1 .. Len(bb.head) : HasNul(bb.head[r])

\* the characters of a terminated text array before its terminator
Content(t) == [k \in 1 .. strlen(t, NUL) |-> At(t, k - 1)]

\* the text of line row of a store, all NUL for a line it does not hold
TextAt(bb, row) ==
    IF row >= 0 /\ row < Len(bb.head) THEN bb.head[row + 1] ELSE calloc_text

\* the length of line row of a store: 0 for a line it does not hold,
\* MAX_LINE_LEN for a text without terminator
LineLen(bb, row) ==
    IF HasNul(TextAt(bb, row)) THEN strlen(TextAt(bb, row), NUL) ELSE MAX_LINE_LEN

\* mvprintw(line++, 0, iter->text) for every node: reads each text up to its
\* terminator, behind the array when there is none
render_ub(bb) == ~Terminated(bb)

\* the number of characters the store holds
RECURSIVE Typed(_, _)
Typed(bb, r) ==
    IF r > Len(bb.head) THEN 0
    ELSE Cardinality({k \in 1 .. Len(bb.head[r]) : bb.head[r][k] # NUL})
         + Typed(bb, r + 1)

(***************************************************************************)
(* The state.  call records the buffer call of the last step (or "none"),  *)
(* its arguments (for "none", the cursor), and the buffer before it.       *)
(* first records the same of the first of two direct calls (SpecApi), so   *)
(* that first.pre is the buffer the two calls started from; in main's loop *)
(* it records, after a KEY_DELETE, the insert of the iteration before, if  *)
(* that iteration made one.  keys records the printable keys read so far,  *)
(* in order, for as long as getch() has returned nothing else.             *)
(***************************************************************************)
NoCall(bb, cx, cy) == [op |-> "none", ch |-> 0, x |-> cx, y |-> cy, pre |-> bb]

NoFirst == NoCall(EmptyBuffer, 0, 0)

\* another key than a printable one has been read
NoKeys == [only |-> FALSE, seq |-> <<>>]

\* keys after the printable key c
Typing(c) == IF keys.only THEN [keys EXCEPT !.seq = Append(@, c)] ELSE NoKeys

Init ==
    /\ b = EmptyBuffer
    /\ x = 0
    /\ y = 0
    /\ ch = 0
    /\ pc = "start"
    /\ ub = FALSE
    /\ call = NoCall(EmptyBuffer, 0, 0)
    /\ first = NoFirst
    /\ keys = [only |-> TRUE, seq |-> <<>>]

\* the outcomes of a buffer call that gives res when a read outside the
\* array yields NUL and one of the buffers alts whatever it yields: where the
\* call is defined, res; where it is not, the execution as the code continues
\* it, or no effect on the buffer at all
Outcome(res, alts) ==
    IF res.ub
    THEN /\ ub' = TRUE
         /\ b' \in alts \cup {b}
    ELSE /\ ub' = FALSE
         /\ b' = res.b

\* an edit of main's loop: the buffer call, then the redraw of every line
Iterate(res, alts) ==
    IF res.ub
    THEN /\ ub' = TRUE
         /\ b' \in alts \cup {b}
    ELSE /\ ub' = render_ub(res.b)
         /\ b' = res.b

(***************************************************************************)
(* main: one action per iteration of the do-while loop, by the key read.   *)
(***************************************************************************)
Running == pc = "getch" /\ ~ub

\* the first iteration: ch == 0 is no case of the switch and not printable
FirstIteration ==
    /\ pc = "start"
    /\ pc' = "getch"
    /\ ub' = render_ub(b)
    /\ call' = NoCall(b, x, y)
    /\ UNCHANGED <<b, x, y, ch, first, keys>>

KeyRight ==
    /\ Running
    /\ x <= MaxCol
    /\ ch' = KEY_RIGHT
    /\ x' = x + 1
    /\ ub' = render_ub(b)
    /\ call' = NoCall(b, x, y)
    /\ first' = NoFirst
    /\ keys' = NoKeys
    /\ UNCHANGED <<b, y, pc>>

\* KeyLeft with the column kept from going below 0
KeyLeftClamped ==
    /\ Running
    /\ x > -NegDepth
    /\ ch' = KEY_LEFT
    /\ x' = Max(x - 1, 0)
    /\ ub' = render_ub(b)
    /\ call' = NoCall(b, x, y)
    /\ first' = NoFirst
    /\ keys' = NoKeys
    /\ UNCHANGED <<b, y, pc>>

KeyLeft ==
    /\ Running
    /\ x > -NegDepth
    /\ ch' = KEY_LEFT
    /\ x' = x - 1
    /\ ub' = render_ub(b)
    /\ call' = NoCall(b, x, y)
    /\ first' = NoFirst
    /\ keys' = NoKeys
    /\ UNCHANGED <<b, y, pc>>

KeyUp ==
    /\ Running
    /\ y > -NegDepth
    /\ ch' = KEY_UP
    /\ y' = y - 1
    /\ ub' = render_ub(b)
    /\ call' = NoCall(b, x, y)
    /\ first' = NoFirst
    /\ keys' = NoKeys
    /\ UNCHANGED <<b, x, pc>>

KeyDown ==
    /\ Running
    /\ y < MaxRow
    /\ ch' = KEY_DOWN
    /\ y' = y + 1
    /\ ub' = render_ub(b)
    /\ call' = NoCall(b, x, y)
    /\ first' = NoFirst
    /\ keys' = NoKeys
    /\ UNCHANGED <<b, x, pc>>

\* KeyDelete with the cursor moved before the call: x--, then the removal
KeyDeleteMovedFirst ==
    /\ Running
    /\ x > -NegDepth
    /\ ch' = KEY_DELETE
    /\ Iterate(buffer_remove_character(b, x - 1, y, NUL),
               {buffer_remove_character(b, x - 1, y, junk).b : junk \in JunkBytes})
    /\ x' = x - 1
    /\ call' = [op |-> "remove", ch |-> 0, x |-> x - 1, y |-> y, pre |-> b]
    /\ first' = IF call.op = "insert" THEN call ELSE NoFirst
    /\ keys' = NoKeys
    /\ UNCHANGED <<y, pc>>

KeyDelete ==
    /\ Running
    /\ x > -NegDepth
    /\ ch' = KEY_DELETE
    /\ Iterate(buffer_remove_character(b, x, y, NUL),
               {buffer_remove_character(b, x, y, junk).b : junk \in JunkBytes})
    /\ x' = x - 1
    /\ call' = [op |-> "remove", ch |-> 0, x |-> x, y |-> y, pre |-> b]
    /\ first' = IF call.op = "insert" THEN call ELSE NoFirst
    /\ keys' = NoKeys
    /\ UNCHANGED <<y, pc>>

KeyChar ==
    /\ Running
    /\ x <= MaxCol
    /\ Typed(b, 1) < MaxTyped
    /\ \E c \in Chars :
         /\ isprint(c)
         /\ ch' = c
         /\ Iterate(buffer_insert_character(b, c, x, y, NUL),
                    {buffer_insert_character(b, c, x, y, junk).b :
                        junk \in JunkBytes})
         /\ call' = [op |-> "insert", ch |-> c, x |-> x, y |-> y, pre |-> b]
         /\ keys' = Typing(c)
    /\ x' = x + 1
    /\ first' = NoFirst
    /\ UNCHANGED <<y, pc>>

KeyOther ==
    /\ Running
    /\ isprint_defined(OtherKey)
    /\ ~isprint(OtherKey)
    /\ ch' = OtherKey
    /\ ub' = render_ub(b)
    /\ call' = NoCall(b, x, y)
    /\ first' = NoFirst
    /\ keys' = NoKeys
    /\ UNCHANGED <<b, x, y, pc>>

\* a key of the keypad without a case of its own, KEY_HOME: isprint(ch) is
\* called with a value that no unsigned char holds, which is undefined; it
\* yields zero, or nonzero and ch is inserted as the char it converts to
KeyFunction ==
    /\ Running
    /\ ~isprint_defined(KEY_HOME)
    /\ ch' = KEY_HOME
    /\ ub' = TRUE
    /\ \E printable \in JunkTruth :
         IF printable
         THEN /\ b' \in {buffer_insert_character(b, to_char(KEY_HOME), x, y, junk).b :
                            junk \in JunkBytes}
              /\ x' = x + 1
              /\ call' = [op |-> "insert", ch |-> to_char(KEY_HOME),
                           x |-> x, y |-> y, pre |-> b]
         ELSE /\ b' = b
              /\ x' = x
              /\ call' = NoCall(b, x, y)
    /\ first' = NoFirst
    /\ keys' = NoKeys
    /\ UNCHANGED <<y, pc>>

KeyQuit ==
    /\ Running
    /\ ch' = KEY_F10
    /\ pc' = "exit"
    /\ call' = NoCall(b, x, y)
    /\ first' = NoFirst
    /\ keys' = NoKeys
    /\ UNCHANGED <<b, x, y, ub>>

Next ==
    \/ FirstIteration
    \/ KeyRight
    \/ KeyLeft
    \/ KeyUp
    \/ KeyDown
    \/ KeyDelete
    \/ KeyChar
    \/ KeyOther
    \/ KeyFunction
    \/ KeyQuit

Spec == Init /\ [][Next]_vars

(***************************************************************************)
(* main fed printable keys up to the capacity of a line and one key more,  *)
(* any of Chars at the columns below MaxTyped and 'a' and 'b' in turn at   *)
(* the later ones, and a KEY_DELETE after any of them.  While the line     *)
(* holds at most MaxTyped characters KEY_LEFT and KEY_DELETE are read at   *)
(* will, and printable keys after them while it holds fewer.               *)
(***************************************************************************)
TypeKey ==
    /\ Running
    /\ keys.only \/ Typed(b, 1) < MaxTyped
    /\ x < MAX_LINE_LEN
    /\ \E c \in IF x < MaxTyped THEN Chars ELSE {97 + (x % 2)} :
         /\ isprint(c)
         /\ ch' = c
         /\ Iterate(buffer_insert_character(b, c, x, y, NUL),
                    {buffer_insert_character(b, c, x, y, junk).b :
                        junk \in JunkBytes})
         /\ call' = [op |-> "insert", ch |-> c, x |-> x, y |-> y, pre |-> b]
         /\ keys' = Typing(c)
    /\ x' = x + 1
    /\ first' = NoFirst
    /\ UNCHANGED <<y, pc>>

TypedLeft ==
    /\ Typed(b, 1) <= MaxTyped
    /\ KeyLeft

TypedDelete ==
    /\ keys.only \/ Typed(b, 1) <= MaxTyped
    /\ KeyDelete

NextTyping ==
    \/ FirstIteration
    \/ TypeKey
    \/ TypedLeft
    \/ TypedDelete

SpecTyping == Init /\ [][NextTyping]_vars

(***************************************************************************)
(* The buffer functions called directly: from a store the editor can       *)
(* hold, one call with any arguments; after a buffer_select_node the same  *)
(* call again; after a buffer_remove_character that removed a character,   *)
(* an insert of that character on the same row, at the column it was       *)
(* removed from or at the column of the call.                              *)
(***************************************************************************)
Alphabet == Chars \cup {SPACE}

\* char text[128] holding the string s, NUL behind it
FromString(s) == TextOf([j \in Below(Len(s)) |-> s[j + 1]], Len(s))

ApiTexts ==
    {FromString(s) : s \in UNION {[1 .. n -> Alphabet] : n \in 0 .. MaxLen}}
    \cup {FromString([i \in 1 .. (MAX_LINE_LEN - 1 - k) |->
                         IF i % 2 = 1 THEN 97 ELSE 98]) : k \in 0 .. NearCap}

ApiHeads == UNION {[1 .. n -> ApiTexts] : n \in 0 .. MaxLines}

ApiRows == (-NegDepth) .. ApiMaxRow

ApiCols == ((-NegDepth) .. ApiMaxCol)
           \cup ((MAX_LINE_LEN - 1 - NearCap) .. MAX_LINE_LEN)

InitApi ==
    /\ \E head \in ApiHeads : b = [head |-> head, current |-> Len(head)]
    /\ first = NoCall(b, 0, 0)
    /\ x = 0
    /\ y = 0
    /\ ch = 0
    /\ pc = "fresh"
    /\ ub = FALSE
    /\ call = NoCall(b, 0, 0)
    /\ keys = NoKeys

CallSelect ==
    /\ pc = "fresh"
    /\ ~ub
    /\ \E row \in ApiRows :
         /\ b' = buffer_select_node(b, row)
         /\ call' = [op |-> "select", ch |-> 0, x |-> 0, y |-> row, pre |-> b]
    /\ ub' = FALSE
    /\ pc' = "called"
    /\ first' = call'
    /\ UNCHANGED <<x, y, ch, keys>>

CallRemove ==
    /\ pc = "fresh"
    /\ ~ub
    /\ \E col \in ApiCols, row \in ApiRows :
         /\ Outcome(buffer_remove_character(b, col, row, NUL),
                    {buffer_remove_character(b, col, row, junk).b :
                        junk \in JunkBytes})
         /\ call' = [op |-> "remove", ch |-> 0, x |-> col, y |-> row, pre |-> b]
    /\ pc' = "called"
    /\ first' = call'
    /\ UNCHANGED <<x, y, ch, keys>>

CallInsert ==
    /\ pc = "fresh"
    /\ ~ub
    /\ \E c \in Chars, col \in ApiCols, row \in ApiRows :
         /\ Outcome(buffer_insert_character(b, c, col, row, NUL),
                    {buffer_insert_character(b, c, col, row, junk).b :
                        junk \in JunkBytes})
         /\ call' = [op |-> "insert", ch |-> c, x |-> col, y |-> row, pre |-> b]
    /\ pc' = "called"
    /\ first' = call'
    /\ UNCHANGED <<x, y, ch, keys>>

SelectAgain ==
    /\ pc = "called"
    /\ ~ub
    /\ call.op = "select"
    /\ b' = buffer_select_node(b, call.y)
    /\ call' = [call EXCEPT !.pre = b]
    /\ ub' = FALSE
    /\ pc' = "recalled"
    /\ UNCHANGED <<x, y, ch, first, keys>>

InsertBack ==
    /\ pc = "called"
    /\ ~ub
    /\ call.op = "remove"
    /\ call.x >= 1
    /\ call.x <= LineLen(first.pre, call.y)
    /\ \E c \in {At(first.pre.head[call.y + 1], call.x - 1)},
          col \in {call.x - 1, call.x} :
         /\ Outcome(buffer_insert_character(b, c, col, call.y, NUL),
                    {buffer_insert_character(b, c, col, call.y, junk).b :
                        junk \in JunkBytes})
         /\ call' = [op |-> "insert", ch |-> c, x |-> col, y |-> call.y, pre |-> b]
    /\ pc' = "recalled"
    /\ UNCHANGED <<x, y, ch, first, keys>>

NextApi ==
    \/ CallSelect
    \/ CallRemove
    \/ CallInsert
    \/ SelectAgain
    \/ InsertBack

SpecApi == InitApi /\ [][NextApi]_vars

(***************************************************************************)
(* Properties.                                                             *)
(***************************************************************************)
\* every line the store held before is as it was, every line added is empty
LinesKept(pre, post) ==
    /\ Len(post.head) >= Len(pre.head)
    /\ \A r \in 1 .. Len(post.head) :
         post.head[r] = IF r <= Len(pre.head) THEN pre.head[r] ELSE calloc_text

FirstCall(op) == pc = "called" /\ call.op = op

\* C1: an insert at a column col in [0, len] of a line of length
\* len <= MAX_LINE_LEN - 2 is well defined and leaves ch at col, a line of
\* length len + 1, the characters before col as they were and the characters
\* from col on one index higher, in the same order.
C1_InsertShifts ==
    LET len == LineLen(first.pre, call.y)
        t   == TextAt(first.pre, call.y)
        u   == TextAt(b, call.y)
    IN  (/\ FirstCall("insert")
         /\ call.y >= 0
         /\ call.x >= 0
         /\ call.x <= len
         /\ len <= MAX_LINE_LEN - 2)
        => /\ ~ub
           /\ At(u, call.x) = call.ch
           /\ HasNul(u)
           /\ strlen(u, NUL) = len + 1
           /\ \A i \in 0 .. (call.x - 1) : At(u, i) = At(t, i)
           /\ \A i \in call.x .. (len - 1) : At(u, i + 1) = At(t, i)

\* an insert into the middle of a line of length MAX_LINE_LEN - 2 has acted
C1_Witness ==
    /\ FirstCall("insert")
    /\ call.y >= 0
    /\ call.x >= 1
    /\ call.x < LineLen(first.pre, call.y)
    /\ LineLen(first.pre, call.y) = MAX_LINE_LEN - 2
    /\ LineLen(b, call.y) = MAX_LINE_LEN - 1
    /\ At(TextAt(b, call.y), call.x) = call.ch

\* C2: a delete at a column col in [1, len] is well defined and removes the
\* character at col - 1 alone: the length becomes len - 1, the characters
\* before col - 1 stay and every character from col on sits one index lower.
C2_RemoveShifts ==
    LET len == LineLen(first.pre, call.y)
        t   == TextAt(first.pre, call.y)
        u   == TextAt(b, call.y)
    IN  (/\ FirstCall("remove")
         /\ call.y >= 0
         /\ call.x >= 1
         /\ call.x <= len)
        => /\ ~ub
           /\ HasNul(u)
           /\ strlen(u, NUL) = len - 1
           /\ \A i \in 0 .. (call.x - 2) : At(u, i) = At(t, i)
           /\ \A i \in call.x .. (len - 1) : At(u, i - 1) = At(t, i)

\* a delete inside a full line (length MAX_LINE_LEN - 1) has acted
C2_Witness ==
    /\ FirstCall("remove")
    /\ call.y >= 0
    /\ call.x >= 2
    /\ call.x < LineLen(first.pre, call.y)
    /\ LineLen(first.pre, call.y) = MAX_LINE_LEN - 1
    /\ LineLen(b, call.y) = MAX_LINE_LEN - 2

\* C3: every line of the store keeps a terminator inside its 128 slots (its
\* length is at most MAX_LINE_LEN - 1), whatever was inserted.
C3_LinesTerminated ==
    \A r \in 1 .. Len(b.head) :
        /\ HasNul(b.head[r])
        /\ strlen(b.head[r], NUL) <= MAX_LINE_LEN - 1

\* C4: an insert at a column col >= MAX_LINE_LEN - 1 is rejected: no access
\* leaves the array, and every line is as it was.
C4_OverflowRejected ==
    (FirstCall("insert") /\ call.x >= MAX_LINE_LEN - 1)
    => (~ub /\ LinesKept(first.pre, b))

C6_NegativeCursorRejected ==
    (call.op \in {"insert", "remove"} /\ (call.x < 0 \/ call.y < 0))
    => (~ub /\ pc = "getch" /\ LinesKept(call.pre, b))

C8_SelectIdempotent ==
    (pc = "recalled" /\ call.op = "select" /\ call.y >= 0)
    => /\ ~ub
       /\ b.current = call.pre.current
       /\ b.head = call.pre.head

\* select(row) has been called twice for a row the store did not hold
C8_Witness ==
    /\ pc = "recalled"
    /\ call.op = "select"
    /\ call.y >= 1
    /\ call.y >= Len(first.pre.head)
    /\ Len(b.head) = call.y + 1
    /\ b.current = call.y + 1

\* C9 as stated: delete(col, row) with 1 <= col <= len, then an insert of the
\* removed character at the same col, restores the line.
C9_RoundTripSameCol ==
    (/\ pc = "recalled"
     /\ first.op = "remove"
     /\ first.y >= 0
     /\ first.x >= 1
     /\ first.x <= LineLen(first.pre, first.y)
     /\ call.op = "insert"
     /\ call.ch = At(TextAt(first.pre, first.y), first.x - 1)
     /\ call.y = first.y
     /\ call.x = first.x)
    => (~ub /\ b.head = first.pre.head)

\* C9 amended: delete(col, row) with 1 <= col <= len, then an insert of the
\* removed character at col - 1, the index it was removed from, restores the
\* line (and the whole store).
C9_RoundTripAtRemoved ==
    (/\ pc = "recalled"
     /\ first.op = "remove"
     /\ first.y >= 0
     /\ first.x >= 1
     /\ first.x <= LineLen(first.pre, first.y)
     /\ call.op = "insert"
     /\ call.ch = At(TextAt(first.pre, first.y), first.x - 1)
     /\ call.y = first.y
     /\ call.x = first.x - 1)
    => (~ub /\ b.head = first.pre.head)

\* a character removed from inside a full line has been inserted back
C9_Witness ==
    /\ pc = "recalled"
    /\ first.op = "remove"
    /\ call.op = "insert"
    /\ call.x = first.x - 1
    /\ first.x >= 2
    /\ LineLen(first.pre, call.y) = MAX_LINE_LEN - 1
    /\ LineLen(call.pre, call.y) = MAX_LINE_LEN - 2
    /\ call.ch = At(TextAt(first.pre, call.y), first.x - 1)
    /\ TextAt(b, call.y) = TextAt(first.pre, call.y)

\* C10: an insert at a column col with len < col < MAX_LINE_LEN - 1 is well
\* defined and leaves the len characters of the line, then col - len spaces,
\* then ch: a line of length col + 1.
C10_GapFill ==
    LET len == LineLen(first.pre, call.y)
        t   == TextAt(first.pre, call.y)
        u   == TextAt(b, call.y)
    IN  (/\ FirstCall("insert")
         /\ call.y >= 0
         /\ len < call.x
         /\ call.x < MAX_LINE_LEN - 1)
        => /\ ~ub
           /\ \A i \in 0 .. (len - 1) : At(u, i) = At(t, i)
           /\ \A i \in len .. (call.x - 1) : At(u, i) = SPACE
           /\ At(u, call.x) = call.ch
           /\ HasNul(u)
           /\ strlen(u, NUL) = call.x + 1

\* insert(ch, 5, 0) on the empty store has left five spaces and ch
C10_Witness ==
    /\ FirstCall("insert")
    /\ first.pre = EmptyBuffer
    /\ call.x = 5
    /\ call.y = 0
    /\ Content(b.head[1]) = <<SPACE, SPACE, SPACE, SPACE, SPACE, call.ch>>

C12_MovesOnlyCursor ==
    [][/\ ch' = KEY_RIGHT => (x' = x + 1 /\ y' = y /\ b' = b)
       /\ ch' = KEY_LEFT  => (x' = x - 1 /\ y' = y /\ b' = b)
       /\ ch' = KEY_UP    => (x' = x /\ y' = y - 1 /\ b' = b)
       /\ ch' = KEY_DOWN  => (x' = x /\ y' = y + 1 /\ b' = b)]_vars

\* KEY_LEFT and KEY_UP have taken the cursor from (0, 0) to (-1, -1), the
\* store holding a line
C12_Witness ==
    /\ ch \in {KEY_LEFT, KEY_UP}
    /\ call.op = "none"
    /\ x = -1
    /\ y = -1
    /\ Len(b.head) = 1
    /\ LineLen(b, 0) >= 1
    /\ b = call.pre

\* C13: the iteration for a printable key ch calls the insert with the cursor
\* (x, y) it held when the key was read and then makes the column x + 1; the
\* iteration for KEY_DELETE calls the removal with that cursor and then makes
\* the column x - 1; neither changes the row.  (What the call leaves is
\* compared where the call is defined.)
C13_EditThenMove ==
    [][/\ isprint(ch')
          => /\ x' = x + 1
             /\ y' = y
             /\ ~ub' => b' = buffer_insert_character(b, ch', x, y, NUL).b
       /\ ch' = KEY_DELETE
          => /\ x' = x - 1
             /\ y' = y
             /\ ~ub' => b' = buffer_remove_character(b, x, y, NUL).b]_vars

\* KEY_DELETE at column 2 of a line of two characters has removed the second
\* and left the cursor at column 1
C13_Witness ==
    /\ ch = KEY_DELETE
    /\ call.op = "remove"
    /\ call.x = 2
    /\ call.y = 0
    /\ LineLen(call.pre, 0) = 2
    /\ LineLen(b, 0) = 1
    /\ At(b.head[1], 0) = At(call.pre.head[1], 0)
    /\ x = 1
    /\ y = 0
    /\ ~ub

OthersKept(pre, post, row) ==
    \A r \in 1 .. Len(post.head) :
        r # row + 1
        => post.head[r] = IF r <= Len(pre.head) THEN pre.head[r] ELSE calloc_text

\* C15: an insert or a delete at a row r >= 0 and a column inside the line
\* (0 <= col <= MAX_LINE_LEN - 2) writes to line r alone: no access leaves
\* the array of line r, every other line the store held is as it was and
\* every other line added is empty.
C15_EditsOneLine ==
    (/\ pc = "called"
     /\ call.op \in {"insert", "remove"}
     /\ call.y >= 0
     /\ call.x >= 0
     /\ call.x <= MAX_LINE_LEN - 2)
    => (~ub /\ OthersKept(first.pre, b, call.y))

\* C16: a printable key read with the cursor at (col, row), row >= 0,
\* 0 <= col <= len, len <= MAX_LINE_LEN - 2, and KEY_DELETE read right after
\* it, leave line row with the content it had before the two keys and the
\* cursor at (col, row) again, no access having left the array.
C16_TypeThenDelete ==
    (/\ call.op = "remove"
     /\ first.op = "insert"
     /\ first.y >= 0
     /\ first.x >= 0
     /\ first.x <= LineLen(first.pre, first.y)
     /\ LineLen(first.pre, first.y) <= MAX_LINE_LEN - 2)
    => /\ ~ub
       /\ TextAt(b, first.y) = TextAt(first.pre, first.y)
       /\ x = first.x
       /\ y = first.y

\* a character typed in front of the one character of a line has been
\* deleted again
C16_Witness ==
    /\ ch = KEY_DELETE
    /\ call.op = "remove"
    /\ first.op = "insert"
    /\ first.x = 0
    /\ first.y = 0
    /\ LineLen(first.pre, 0) = 1
    /\ LineLen(call.pre, 0) = 2
    /\ At(call.pre.head[1], 0) = first.ch
    /\ b.head = first.pre.head
    /\ x = 0
    /\ y = 0

\* C17: KEY_DELETE read with the cursor at (col, row), row >= 0, col greater
\* than the length of line row, changes no character of any line (a line it
\* adds is empty) and accesses nothing outside the array, and the column is
\* col - 1 after it, the row as before.
C17_DeleteBehindEnd ==
    (/\ call.op = "remove"
     /\ call.y >= 0
     /\ call.x > LineLen(call.pre, call.y))
    => /\ ~ub
       /\ LinesKept(call.pre, b)
       /\ x = call.x - 1
       /\ y = call.y

\* KEY_DELETE read at column 2 of a line of one character
C17_Witness ==
    /\ ch = KEY_DELETE
    /\ call.op = "remove"
    /\ call.x = 2
    /\ call.y = 0
    /\ LineLen(call.pre, 0) = 1
    /\ At(call.pre.head[1], 0) # SPACE
    /\ b.head = call.pre.head
    /\ x = 1

\* no slot behind the first terminator of a line holds a character: the
\* slots of a text array up to its last character hold no NUL
NoStale(bb) ==
    \A r \in 1 .. Len(bb.head) :
        \A k \in 1 .. Len(bb.head[r]) : bb.head[r][k] # NUL

\* the call c stays within the capacity of its line: row and column are not
\* negative and an insert leaves at most MAX_LINE_LEN - 1 characters
WithinCapacity(c) ==
    \/ c.op \in {"none", "select"}
    \/ /\ c.y >= 0
       /\ c.x >= 0
       /\ c.op = "insert"
          => Max(LineLen(c.pre, c.y), c.x) + 1 <= MAX_LINE_LEN - 1

\* C18: calls that stay within the capacity of their line, made on a store
\* without stale characters, access nothing outside the array and leave a
\* store without stale characters: behind the first terminator of every line
\* every slot holds the terminator.
C18_NoStaleCharacters ==
    (/\ pc \in {"called", "recalled"}
     /\ WithinCapacity(first)
     /\ WithinCapacity(call))
    => (~ub /\ NoStale(b))

\* a delete inside a full line has left 126 characters and NUL in every slot
\* behind them
C18_Witness ==
    /\ FirstCall("remove")
    /\ call.y >= 0
    /\ call.x >= 1
    /\ call.x < MAX_LINE_LEN - 1
    /\ LineLen(first.pre, call.y) = MAX_LINE_LEN - 1
    /\ LineLen(b, call.y) = MAX_LINE_LEN - 2
    /\ Len(TextAt(b, call.y)) = MAX_LINE_LEN - 2
    /\ NoStale(b)

\* C19: the loop ends in the iteration that reads KEY_F(10) and in no other,
\* and that iteration changes neither the cursor nor the buffer; an
\* iteration whose key is no move, not KEY_DELETE, not printable and not
\* KEY_F(10), the first iteration with ch == 0 among them, changes neither
\* the cursor nor the buffer.
C19_QuitAndOtherKeys ==
    [][/\ pc' = "exit" <=> ch' = KEY_F10
       /\ ch' = KEY_F10 => (x' = x /\ y' = y /\ b' = b)
       /\ (/\ ch' \notin {KEY_RIGHT, KEY_LEFT, KEY_UP, KEY_DOWN}
           /\ ch' \notin {KEY_DELETE, KEY_F10}
           /\ ~isprint(ch'))
          => (x' = x /\ y' = y /\ b' = b)]_vars

====
